---- MODULE Spec2Model ----
(***************************************************************************)
(* Model of "safety assistant/sources/ctrl_room_monitor/application/app.c" *)
(* (SIEMENS IoT2020 control room monitor): the startup sequence of main(), *)
(* the acquisition state machine of main(), and the helper functions       *)
(* ds18b20_read_temp_float, ds18b20_update,                                *)
(* gp2y_read_dust_output_voltage_float, hsm_read_humidity_float and        *)
(* store_data_to_db.                                                       *)
(*                                                                         *)
(* Representation of the C float values (exact rationals, no rounding):    *)
(*   temp                      integer, unit 1/10000 degree Celsius        *)
(*   dust voltages / density   integer, unit 1/FloatDen                    *)
(*   humidity                  <<m, r>> = (m + r/(1023*1023)) / 1000       *)
(***************************************************************************)
EXTENDS Integers, Sequences, FiniteSets, TLC

\* ------------------------------------------------------------------------
\* Program constants
\* ------------------------------------------------------------------------
SUCCESS == 1
FAIL == 0
NUM_OF_SENSORS == 2
dust_sensor_max_sample == 16
DS18B20_ADDR_LEN == 8

\* app_states_t; FAULT is the value (WAIT + 1) that selects the default case
NONE == 0
START_CONV == 1
WAIT_TILL_CONV_FINISHED == 2
READ_TEMP == 3
READ_DUST_CONCENTRATION == 4
READ_HUMIDITY == 5
WAIT == 6
\* (variant: the value selects a case of the switch)
FAULT_in_range == WAIT
FAULT == WAIT + 1

\* one unit of a dust voltage / density value is 1/FloatDen
\* (1023 ADC steps, 16 samples, divisor 5.8 = 58/10, thresholds in tenths)
FloatDen == 1023 * 16 * 58 * 5
ADC_FULL_SCALE == 1023

\* ------------------------------------------------------------------------
\* Bounds and input sets of the environment
\* ------------------------------------------------------------------------
\* number of DS18B20 devices that may be wired to the bus (0..MaxDevices)
MaxDevices == 2
\* number of completed cycles the cycle counter distinguishes (saturating)
MaxCycle == 1

\* raw ADC counts the analog inputs deliver
AdcSamples == {0, 1023}
\* raw 16-bit temperature fields (msb*256+lsb) the probes deliver
RawSamples == {400, 64656, 32768}
\* scratchpad bytes 2..7 (TH, TL, configuration, reserved, count remain, count per C)
ScratchTail == <<75, 70, 127, 255, 12, 16>>
\* corruptions of a frame on the wire: none, or one flipped bit <<byte, bit>>
BitFlips == {<<0, 0>>, <<2, 7>>, <<9, 0>>}

Handles == {"uart", "dust_gpio", "dust_aio", "hsm_aio"}

\* ------------------------------------------------------------------------
\* Integer helpers (C integer semantics)
\* ------------------------------------------------------------------------
Pow2(n) == 2 ^ n

U8(x) == x % 256

\* conversion of an int to int16_t (gcc: reduced modulo 2^16)
ToInt16(x) == LET m == x % 65536 IN IF m >= 32768 THEN m - 65536 ELSE m

Bit(x, k) == (x \div Pow2(k)) % 2

RECURSIVE BitOrN(_, _, _)
BitOrN(a, b, n) ==
    IF n = 0 THEN 0
    ELSE (IF (a % 2 = 1) \/ (b % 2 = 1) THEN 1 ELSE 0)
         + 2 * BitOrN(a \div 2, b \div 2, n - 1)

RECURSIVE BitXorN(_, _, _)
BitXorN(a, b, n) ==
    IF n = 0 THEN 0
    ELSE (IF (a % 2) # (b % 2) THEN 1 ELSE 0)
         + 2 * BitXorN(a \div 2, b \div 2, n - 1)

\* ~x on a (promoted) int
BitNot(x) == (0 - x) - 1

\* ------------------------------------------------------------------------
\* mraa_uart_ow_crc8: the Dallas/Maxim CRC-8 (x^8 + x^5 + x^4 + 1, reflected
\* 0x8C).  Crc8Bits shifts one byte through the register bit by bit, least
\* significant bit first; Crc8Table holds the register after eight shifts
\* for every value of (crc XOR byte), which is all a byte step depends on,
\* and Xor8 holds the XOR of two bytes.
\* ------------------------------------------------------------------------
RECURSIVE Crc8Bits(_, _, _)
Crc8Bits(crc, inbyte, n) ==
    IF n = 0 THEN crc
    ELSE IF (crc + inbyte) % 2 = 1
    THEN Crc8Bits(BitXorN(crc \div 2, 140, 8), inbyte \div 2, n - 1)
    ELSE Crc8Bits(crc \div 2, inbyte \div 2, n - 1)

Crc8Table == [x \in 0..255 |-> Crc8Bits(x, 0, 8)]

Xor8 == [a \in 0..255 |-> [b \in 0..255 |-> BitXorN(a, b, 8)]]

RECURSIVE Crc8From(_, _, _, _)
Crc8From(buf, i, len, crc) ==
    IF i > len THEN crc
    ELSE Crc8From(buf, i + 1, len, Crc8Table[Xor8[crc][buf[i]]])

mraa_uart_ow_crc8(buf, len) == Crc8From(buf, 1, len, 0)

\* ------------------------------------------------------------------------
\* Frames on the one-wire bus
\* ------------------------------------------------------------------------
\* the scratchpad a healthy probe sends for the raw field raw
GoodFrame(raw) ==
    LET body == <<raw % 256, raw \div 256>> \o ScratchTail
    IN body \o <<mraa_uart_ow_crc8(body, 8)>>

\* a frame with bit f[2] of byte f[1] (1-based) inverted; f[1] = 0: untouched
FlipBit(frame, f) ==
    IF f[1] = 0 THEN frame
    ELSE [frame EXCEPT ![f[1]] =
            IF Bit(@, f[2]) = 1 THEN @ - Pow2(f[2]) ELSE @ + Pow2(f[2])]

\* what nine mraa_uart_ow_read_byte calls return when no device answers
IdleFrame == <<255, 255, 255, 255, 255, 255, 255, 255, 255>>

CrcOk(frame) == mraa_uart_ow_crc8(frame, DS18B20_ADDR_LEN) = frame[9]

\* ------------------------------------------------------------------------
\* ds18b20_read_temp_float: CRC check, then sign/scale decoding.
\* p_temp is the value *p_temp holds before the call; temp is its value after.
\* 0.0625 = TempScale / 10000, so a temperature is held in 1/10000 degree.
\* ------------------------------------------------------------------------
TempScale == 625

\* (variant: the frame is decoded into *p_temp before the CRC is compared)
ds18b20_read_temp_float_decode_first(ds18b20_scratchpad, p_temp) ==
    LET crc == mraa_uart_ow_crc8(ds18b20_scratchpad, DS18B20_ADDR_LEN)
        acc == ToInt16(BitOrN(ds18b20_scratchpad[2] * 256,
                              ds18b20_scratchpad[1], 16))
        is_temp_negative == (ds18b20_scratchpad[2] \div 128) % 2
        inv == ToInt16(ToInt16(BitNot(acc)) + 1)
        temp_adc_val == IF is_temp_negative = 1
                        THEN ToInt16(0 - inv) ELSE acc
    IN [ret |-> IF crc # ds18b20_scratchpad[9] THEN FAIL ELSE SUCCESS,
        temp |-> temp_adc_val * TempScale]

\* (variant: line 485, the final negation, is missing)
ds18b20_read_temp_float_magnitude(ds18b20_scratchpad, p_temp) ==
    LET crc == mraa_uart_ow_crc8(ds18b20_scratchpad, DS18B20_ADDR_LEN)
    IN IF crc # ds18b20_scratchpad[9]
       THEN [ret |-> FAIL, temp |-> p_temp]
       ELSE LET acc == ToInt16(BitOrN(ds18b20_scratchpad[2] * 256,
                                      ds18b20_scratchpad[1], 16))
                is_temp_negative == (ds18b20_scratchpad[2] \div 128) % 2
                inv == ToInt16(ToInt16(BitNot(acc)) + 1)
                temp_adc_val == IF is_temp_negative = 1 THEN inv ELSE acc
            IN [ret |-> SUCCESS, temp |-> temp_adc_val * TempScale]

ds18b20_read_temp_float(ds18b20_scratchpad, p_temp) ==
    LET crc == mraa_uart_ow_crc8(ds18b20_scratchpad, DS18B20_ADDR_LEN)
    IN IF crc # ds18b20_scratchpad[9]
       THEN [ret |-> FAIL, temp |-> p_temp]
       ELSE LET acc == ToInt16(BitOrN(ds18b20_scratchpad[2] * 256,
                                      ds18b20_scratchpad[1], 16))
                is_temp_negative == (ds18b20_scratchpad[2] \div 128) % 2
                inv == ToInt16(ToInt16(BitNot(acc)) + 1)
                temp_adc_val == IF is_temp_negative = 1
                                THEN ToInt16(0 - inv) ELSE acc
            IN [ret |-> SUCCESS, temp |-> temp_adc_val * TempScale]

\* ------------------------------------------------------------------------
\* gp2y_read_dust_output_voltage_float: one LED pulse and one analog sample.
\* on_ok / off_ok: the two mraa_gpio_write calls report MRAA_SUCCESS;
\* adc: what mraa_aio_read delivers; prev_adc: the static dust_adc_val.
\* ops is the sequence of pin operations and holds the call performed.
\* ------------------------------------------------------------------------
VoltOfAdc(adc) == adc * 5 * (FloatDen \div ADC_FULL_SCALE)

\* the calls of the function as log entries: mraa_gpio_write(.., level) with
\* its result, usleep(us), mraa_aio_read with the count it delivers
GpioWrite(level, ok) == [op |-> "mraa_gpio_write", arg |-> level, ok |-> ok]
Usleep(us) == [op |-> "usleep", arg |-> us, ok |-> TRUE]
AioRead(adc) == [op |-> "mraa_aio_read", arg |-> adc, ok |-> TRUE]

\* lines 513..534: the pulse up to the LED-off write
Gp2yPulse(adc, off_ok) ==
    <<GpioWrite(1, TRUE), Usleep(280), AioRead(adc), Usleep(40),
      GpioWrite(0, off_ok)>>

\* (variant: a failed LED-on write does not end the call)
gp2y_read_dust_output_voltage_float_no_return(on_ok, adc, off_ok, prev_adc) ==
    IF ~off_ok
    THEN [ret |-> 0, dust_adc_val |-> adc,
          ops |-> <<GpioWrite(1, on_ok)>> \o Tail(Gp2yPulse(adc, off_ok))]
    ELSE [ret |-> VoltOfAdc(adc), dust_adc_val |-> adc,
          ops |-> <<GpioWrite(1, on_ok)>> \o Tail(Gp2yPulse(adc, off_ok))
                  \o <<Usleep(9680)>>]

gp2y_read_dust_output_voltage_float(on_ok, adc, off_ok, prev_adc) ==
    IF ~on_ok
    THEN [ret |-> 0, dust_adc_val |-> prev_adc, ops |-> <<GpioWrite(1, FALSE)>>]
    ELSE IF ~off_ok
    THEN [ret |-> 0, dust_adc_val |-> adc, ops |-> Gp2yPulse(adc, off_ok)]
    ELSE [ret |-> VoltOfAdc(adc), dust_adc_val |-> adc,
          ops |-> Append(Gp2yPulse(adc, off_ok), Usleep(9680))]

\* ------------------------------------------------------------------------
\* The dust response curve of case READ_DUST_CONCENTRATION, applied to the
\* mean voltage: breakpoints 0.6 and 3.5, divisor 5.8, clamp 0.6
\* ------------------------------------------------------------------------
V0_6 == (6 * FloatDen) \div 10
V3_5 == (35 * FloatDen) \div 10

\* (variant: no saturation above 3.5)
DustDensity_unclamped(mean) ==
    IF mean <= V0_6 THEN 0 ELSE ((mean - V0_6) * 10) \div 58

DustDensity(mean) ==
    IF mean <= V0_6 THEN 0
    ELSE IF mean > V0_6 /\ mean <= V3_5 THEN ((mean - V0_6) * 10) \div 58
    ELSE V0_6

\* ------------------------------------------------------------------------
\* hsm_read_humidity_float: v = adc/1023*5, 1.253*v*v + 25.931*v - 7.542.
\* The result is exact: <<m, r>> stands for (m + r/1023^2) thousandths.
\*   1253*v*v  = 31325*adc*adc/1023^2,  25931*v = 129655*adc/1023
\* ------------------------------------------------------------------------
hsm_read_humidity_float(hum_adc_val) ==
    LET sq    == ADC_FULL_SCALE * ADC_FULL_SCALE
        x     == 31325 * hum_adc_val
        q1    == x \div ADC_FULL_SCALE
        r1    == x % ADC_FULL_SCALE
        \* 1253*v*v + 25931*v = P/1023 + Q/1023^2  (in thousandths: times 1)
        P     == 129655 * hum_adc_val + q1 * hum_adc_val
        Q     == r1 * hum_adc_val
        p1    == P \div ADC_FULL_SCALE
        p0    == P % ADC_FULL_SCALE
        num   == p0 * ADC_FULL_SCALE + Q
    IN <<p1 - 7542 + (num \div sq), num % sq>>

\* ------------------------------------------------------------------------
\* store_data_to_db: path is the way the sqlite3 / malloc calls turn out.
\* opens/closes count sqlite3_open / sqlite3_close, allocs/frees the query
\* buffer.
\* ------------------------------------------------------------------------
StorePaths == {"open_fail", "alloc_fail", "insert_fail", "ok"}

store_data_to_db(path) ==
    CASE path = "open_fail"   -> [ret |-> FAIL, opens |-> 1, closes |-> 1,
                                  allocs |-> 0, frees |-> 0]
      [] path = "alloc_fail"  -> [ret |-> FAIL, opens |-> 1, closes |-> 1,
                                  allocs |-> 0, frees |-> 0]
      [] path = "insert_fail" -> [ret |-> FAIL, opens |-> 1, closes |-> 1,
                                  allocs |-> 1, frees |-> 0]
      [] path = "ok"          -> [ret |-> SUCCESS, opens |-> 1, closes |-> 1,
                                  allocs |-> 1, frees |-> 1]

\* ------------------------------------------------------------------------
\* State
\* ------------------------------------------------------------------------
VARIABLES
    pc,                        \* position in main: a startup step, "loop", "exit", "spin"
    exit_status,               \* return value of main, -1 while running
    hstate,                    \* per handle: "null", "open" or "closed"
    hcloses,                   \* per handle: number of close / stop calls
    mraa_ret_val,
    num_present,               \* devices wired to the bus
    search_pos,                \* devices the running ROM search has delivered
    state_index,
    ds18b20_addr,
    temp,
    sen_count,
    humidity,
    hum_adc_val,
    dust_concentration,
    acc_dust_concentration,
    dust_sensor_sample_count,
    dust_data_coll_err,
    dust_adc_val,
    dust_pc,                   \* inside case READ_DUST_CONCENTRATION: "enter" or "loop"
    db_open,                   \* sqlite3 handles opened and not closed
    db_bufs,                   \* query buffers allocated and not freed
    scratchpad,                \* the frame the last read-scratchpad delivered
    bus_log,                   \* bus commands and conversion waits of the running cycle
    gp2y_ops,                  \* pin operations of the last dust sample call
    pin_err,                   \* a GPIO write failed in the running dust batch
    dust_batch,                \* calls made in the running dust batch and the sum of what they returned
    cycle_ids,                 \* sensor ids of the store calls of the running cycle
    last_store,                \* the last store_data_to_db call
    last_fail,                 \* what failed in the last completed case
    startup_failed,            \* a startup step reported a failure
    cycle                      \* completed cycles, saturating at MaxCycle

hw_vars == <<hstate, hcloses>>
bus_vars == <<mraa_ret_val, num_present, search_pos, ds18b20_addr>>
temp_vars == <<temp, scratchpad, bus_log>>
hum_vars == <<humidity, hum_adc_val>>
dust_vars == <<dust_concentration, acc_dust_concentration,
               dust_sensor_sample_count, dust_data_coll_err, dust_adc_val,
               dust_pc, gp2y_ops, pin_err, dust_batch>>
db_vars == <<db_open, db_bufs>>
log_vars == <<cycle_ids, last_store>>

vars == <<pc, exit_status, hw_vars, bus_vars, state_index, temp_vars,
          sen_count, hum_vars, dust_vars, db_vars, log_vars, last_fail,
          startup_failed, cycle>>

NoStore == [kind |-> "none", id |-> 0, val |-> 0, addr |-> 0, raw |-> 0,
            ok |-> FALSE, seq |-> 0]

\* the static initialisers of main (lines 139..151); nothing acquired yet
StaticInit ==
    /\ exit_status = -1
    /\ hstate = [h \in Handles |-> "null"]
    /\ hcloses = [h \in Handles |-> 0]
    /\ mraa_ret_val = "SUCCESS"
    /\ search_pos = 0
    /\ state_index = NONE
    /\ ds18b20_addr = [i \in 1..NUM_OF_SENSORS |-> 0]
    /\ temp = 0
    /\ sen_count = 0
    /\ humidity = <<0, 0>>
    /\ hum_adc_val = 0
    /\ dust_concentration = 0
    /\ acc_dust_concentration = 0
    /\ dust_sensor_sample_count = 0
    /\ dust_data_coll_err = 0
    /\ dust_adc_val = 0
    /\ dust_pc = "enter"
    /\ db_open = 0
    /\ db_bufs = 0
    /\ gp2y_ops = <<>>
    /\ pin_err = FALSE
    /\ dust_batch = [n |-> 0, sum |-> 0]
    /\ bus_log = <<>>
    /\ cycle_ids = <<>>
    /\ last_store = NoStore
    /\ last_fail = "none"
    /\ startup_failed = FALSE
    /\ cycle = 0

Init ==
    /\ pc = "uart_init"
    /\ num_present \in 0..MaxDevices
    /\ scratchpad = <<>>
    /\ StaticInit

\* ------------------------------------------------------------------------
\* Startup of main (lines 155..273)
\* ------------------------------------------------------------------------
\* the handles S are closed / stopped
mraa_close(hs, S) == [h \in Handles |-> IF h \in S THEN "closed" ELSE hs[h]]
CountClose(hc, S) == [h \in Handles |-> IF h \in S THEN hc[h] + 1 ELSE hc[h]]

\* "return 1" after releasing the handles S
Return1(S) ==
    /\ pc' = "exit"
    /\ exit_status' = 1
    /\ hstate' = mraa_close(hstate, S)
    /\ hcloses' = CountClose(hcloses, S)
    /\ startup_failed' = TRUE

loop_vars == <<state_index, temp_vars, hum_vars, dust_vars, db_vars,
               log_vars, last_fail, cycle>>

\* uart_path = mraa_uart_ow_init(0)
uart_init ==
    /\ pc = "uart_init"
    /\ \E ok \in BOOLEAN :
        IF ok
        THEN /\ hstate' = [hstate EXCEPT !["uart"] = "open"]
             /\ pc' = "reset"
             /\ UNCHANGED <<exit_status, hcloses, startup_failed>>
        ELSE Return1({})
    /\ UNCHANGED <<bus_vars, sen_count, loop_vars>>

\* mraa_uart_ow_reset: a presence pulse is seen iff a device is wired
uart_ow_reset ==
    /\ pc = "reset"
    /\ \E r \in {IF num_present > 0 THEN "SUCCESS" ELSE "NO_DEVICES",
                 "DATA_ERROR"} :
        /\ mraa_ret_val' = r
        /\ IF r = "SUCCESS"
           THEN /\ pc' = "search_first"
                /\ UNCHANGED <<exit_status, hw_vars, startup_failed>>
           ELSE Return1({"uart"})
    /\ UNCHANGED <<num_present, search_pos, ds18b20_addr, sen_count, loop_vars>>

\* mraa_uart_ow_rom_search: the outcomes of one search.  A new search starts
\* at the first device; a failed search resets the search state.  The
\* address of the k-th device in search order is k; the buffer is written
\* only on success.
mraa_uart_ow_rom_search(new_search, pos, present) ==
    LET p == IF new_search THEN 0 ELSE pos
    IN {[ret |-> "DATA_ERROR", found |-> FALSE, addr |-> 0, pos |-> 0]}
       \cup (IF p < present
             THEN {[ret |-> "SUCCESS", found |-> TRUE, addr |-> p + 1,
                    pos |-> p + 1]}
             ELSE {[ret |-> "NO_DEVICES", found |-> FALSE, addr |-> 0,
                    pos |-> 0]})

\* the check after the search loop (lines 208..214) and the step it leads to
AfterSearch(ret) ==
    IF ret = "DATA_ERROR"
    THEN Return1({"uart"})
    ELSE /\ pc' = "gpio_init"
         /\ UNCHANGED <<exit_status, hw_vars>>

\* the first search (NEW_SEARCH) into ds18b20_addr[sen_count++]
rom_search_first ==
    /\ pc = "search_first"
    /\ \E s \in mraa_uart_ow_rom_search(TRUE, search_pos, num_present) :
        /\ mraa_ret_val' = s.ret
        /\ search_pos' = s.pos
        /\ ds18b20_addr' = IF s.found
                           THEN [ds18b20_addr EXCEPT ![sen_count + 1] = s.addr]
                           ELSE ds18b20_addr
        /\ sen_count' = U8(sen_count + 1)
        /\ IF s.ret = "NO_DEVICES"
           THEN Return1({"uart"})
           ELSE IF NUM_OF_SENSORS > 1
           THEN /\ pc' = "search_next"
                /\ startup_failed' = (startup_failed \/ s.ret # "SUCCESS")
                /\ UNCHANGED <<exit_status, hw_vars>>
           ELSE /\ AfterSearch(s.ret)
                /\ IF s.ret = "SUCCESS" THEN UNCHANGED startup_failed ELSE TRUE
    /\ UNCHANGED <<num_present, loop_vars>>

\* one pass of the do-while loop (CONTINUE_WITH_PREV_SEARCH) into
\* ds18b20_addr[sen_count]; the pass that ends the loop makes the check
\* that follows it
rom_search_next ==
    /\ pc = "search_next"
    /\ \E s \in mraa_uart_ow_rom_search(FALSE, search_pos, num_present) :
        /\ mraa_ret_val' = s.ret
        /\ search_pos' = s.pos
        /\ ds18b20_addr' = IF s.found
                           THEN [ds18b20_addr EXCEPT ![sen_count + 1] = s.addr]
                           ELSE ds18b20_addr
        /\ IF s.ret = "NO_DEVICES"
           THEN /\ Return1({"uart"})
                /\ UNCHANGED sen_count
           ELSE /\ sen_count' = U8(sen_count + 1)
                /\ IF NUM_OF_SENSORS # U8(sen_count + 1)
                   THEN /\ pc' = "search_next"
                        /\ startup_failed' = (startup_failed \/ s.ret # "SUCCESS")
                        /\ UNCHANGED <<exit_status, hw_vars>>
                   ELSE /\ AfterSearch(s.ret)
                        /\ IF s.ret = "SUCCESS"
                           THEN UNCHANGED startup_failed ELSE TRUE
    /\ UNCHANGED <<num_present, loop_vars>>

\* dust_gpio_path = mraa_gpio_init(dust_ir_led_pin)
gpio_init ==
    /\ pc = "gpio_init"
    /\ \E ok \in BOOLEAN :
        IF ok
        THEN /\ hstate' = [hstate EXCEPT !["dust_gpio"] = "open"]
             /\ pc' = "gpio_dir"
             /\ UNCHANGED <<exit_status, hcloses, startup_failed>>
        ELSE Return1({"uart"})
    /\ UNCHANGED <<bus_vars, sen_count, loop_vars>>

\* mraa_gpio_dir(dust_gpio_path, MRAA_GPIO_OUT)
gpio_dir ==
    /\ pc = "gpio_dir"
    /\ \E r \in {"SUCCESS", "OTHER"} :
        /\ mraa_ret_val' = r
        /\ IF r = "SUCCESS"
           THEN /\ pc' = "dust_aio_init"
                /\ UNCHANGED <<exit_status, hw_vars, startup_failed>>
           ELSE Return1({"dust_gpio", "uart"})
    /\ UNCHANGED <<num_present, search_pos, ds18b20_addr, sen_count, loop_vars>>

\* dust_aio_path = mraa_aio_init(dust_aio_in)
dust_aio_init ==
    /\ pc = "dust_aio_init"
    /\ \E ok \in BOOLEAN :
        IF ok
        THEN /\ hstate' = [hstate EXCEPT !["dust_aio"] = "open"]
             /\ pc' = "hsm_aio_init"
             /\ UNCHANGED <<exit_status, hcloses, startup_failed>>
        ELSE Return1({"dust_gpio", "uart"})
    /\ UNCHANGED <<bus_vars, sen_count, loop_vars>>

\* the probe index the loop starts with (line 273)
\* (variant: the index is left as the enumeration left it)
SenCountAtLoopEntry_kept(cnt) == cnt
SenCountAtLoopEntry(cnt) == 0

\* hsm_aio_path = mraa_aio_init(hsm_aio_in), then sen_count = 0 (line 273)
hsm_aio_init ==
    /\ pc = "hsm_aio_init"
    /\ \E ok \in BOOLEAN :
        IF ok
        THEN /\ hstate' = [hstate EXCEPT !["hsm_aio"] = "open"]
             /\ pc' = "loop"
             /\ sen_count' = SenCountAtLoopEntry(sen_count)
             /\ UNCHANGED <<exit_status, hcloses, startup_failed>>
        ELSE /\ Return1({"dust_gpio", "dust_aio", "uart"})
             /\ UNCHANGED sen_count
    /\ UNCHANGED <<bus_vars, loop_vars>>

Startup ==
    \/ uart_init
    \/ uart_ow_reset
    \/ rom_search_first
    \/ rom_search_next
    \/ gpio_init
    \/ gpio_dir
    \/ dust_aio_init
    \/ hsm_aio_init

\* ------------------------------------------------------------------------
\* The acquisition loop of main (lines 275..435), one action per case
\* ------------------------------------------------------------------------
start_vars == <<pc, exit_status, hw_vars, bus_vars, startup_failed>>

\* sen_count++ (line 297), on a uint8_t
\* (variant: the increment is lost)
PostInc_lost(cnt) == U8(cnt)
PostInc(cnt) == U8(cnt + 1)

\* the sensor ids of the dust and the humidity record (lines 389, 406)
\* (variant: the dust record takes the humidity id)
DustSensorId_swapped == NUM_OF_SENSORS + 2
DustSensorId == NUM_OF_SENSORS + 1
HumSensorId == NUM_OF_SENSORS + 2

\* the state a failed read (line 326), a failed batch (line 357) and a
\* failed store (lines 319, 397, 414) select
\* (variants: the failure is skipped and the loop goes on)
OnTempReadFail_skip == START_CONV
OnStoreFail_skip == WAIT
OnTempReadFail == FAULT
OnBatchFail == FAULT
OnStoreFail == FAULT

\* the handles the default case releases (lines 428..431)
\* (variant: the default case spins with everything still open)
FaultRelease_none == {}
FaultRelease == Handles

Min(a, b) == IF a < b THEN a ELSE b

\* the state case START_CONV selects (line 286)
\* (variant: the read follows the command at once)
AfterStartConv_no_wait == READ_TEMP
AfterStartConv == WAIT_TILL_CONV_FINISHED

\* the test that ends the probe scan (line 302)
\* (variant: the scan goes one probe too far)
ProbesDone_off_by_one(cnt) == cnt > NUM_OF_SENSORS
ProbesDone(cnt) == cnt >= NUM_OF_SENSORS

\* the accumulator at the start of a dust batch (line 332)
\* (variant: the accumulator is not reset)
AccAtEntry_kept(acc) == acc
AccAtEntry(acc) == 0

\* the state case WAIT selects (line 420)
\* (variant: the loop starts over from NONE)
AfterSleep_idle == NONE
AfterSleep == START_CONV

\* the command codes of ds18b20_update and ds18b20_read_temp_float and the
\* argument of sleep in case WAIT_TILL_CONV_FINISHED
CMD_START_TEMP_CONV == 68
CMD_READ_SCRATCHPAD == 190
ConvWaitSecs == 1

\* mraa_uart_ow_command(uart_path, cmd, ds18b20_addr[slot]) as a log entry;
\* sleep(secs) with the probe index it is made under
mraa_uart_ow_command(cmd, slot) ==
    [op |-> "command", cmd |-> cmd, slot |-> slot,
     addr |-> ds18b20_addr[slot + 1], secs |-> 0]
ConvWait(slot) ==
    [op |-> "sleep", cmd |-> 0, slot |-> slot, addr |-> 0,
     secs |-> ConvWaitSecs]

\* the frames a wired probe may be heard to send: its scratchpad, possibly
\* with one bit inverted on the wire
WireFrames == {FlipBit(GoodFrame(raw), flip) : raw \in RawSamples, flip \in BitFlips}

\* the nine bytes read after a read-scratchpad command addressed to addr:
\* a wired probe answers, an address no probe has is answered by nobody
BusFrames(addr) ==
    IF addr \in 1..num_present THEN WireFrames ELSE {IdleFrame}

\* the effect of one store_data_to_db call on the database resources
DbEffect(st) ==
    /\ db_open' = db_open + st.opens - st.closes
    /\ db_bufs' = db_bufs + st.allocs - st.frees

case_NONE ==
    /\ pc = "loop"
    /\ state_index = NONE
    /\ state_index' = START_CONV
    /\ last_fail' = "none"
    /\ UNCHANGED <<start_vars, temp_vars, sen_count, hum_vars, dust_vars,
                   db_vars, log_vars, cycle>>

\* ds18b20_update(uart_path, ds18b20_addr[sen_count])
case_START_CONV ==
    /\ pc = "loop"
    /\ state_index = START_CONV
    /\ sen_count + 1 \in DOMAIN ds18b20_addr
    /\ bus_log' = Append(bus_log,
                         mraa_uart_ow_command(CMD_START_TEMP_CONV, sen_count))
    /\ state_index' = AfterStartConv
    /\ last_fail' = "none"
    /\ UNCHANGED <<start_vars, temp, scratchpad, sen_count, hum_vars,
                   dust_vars, db_vars, log_vars, cycle>>

\* sleep(1)
case_WAIT_TILL_CONV_FINISHED ==
    /\ pc = "loop"
    /\ state_index = WAIT_TILL_CONV_FINISHED
    /\ bus_log' = Append(bus_log, ConvWait(sen_count))
    /\ state_index' = READ_TEMP
    /\ last_fail' = "none"
    /\ UNCHANGED <<start_vars, temp, scratchpad, sen_count, hum_vars,
                   dust_vars, db_vars, log_vars, cycle>>

\* the body of case READ_TEMP for the frame the bus delivers
ReadTempBody(frame, addr) ==
    LET rd  == ds18b20_read_temp_float(frame, temp)
        id  == PostInc(sen_count)
    IN /\ scratchpad' = frame
       /\ bus_log' = Append(bus_log,
                            mraa_uart_ow_command(CMD_READ_SCRATCHPAD, sen_count))
       /\ temp' = rd.temp
       /\ IF rd.ret = SUCCESS
          THEN \E path \in StorePaths :
               LET st == store_data_to_db(path)
               IN /\ cycle_ids' = Append(cycle_ids, id)
                  /\ last_store' = [kind |-> "temp", id |-> id,
                                    val |-> rd.temp, addr |-> addr,
                                    raw |-> frame[2] * 256 + frame[1],
                                    ok |-> (st.ret = SUCCESS),
                                    seq |-> 1 - last_store.seq]
                  /\ DbEffect(st)
                  /\ IF st.ret = SUCCESS
                     THEN /\ last_fail' = "none"
                          /\ IF ProbesDone(id)
                             THEN /\ sen_count' = 0
                                  /\ state_index' = READ_DUST_CONCENTRATION
                             ELSE /\ sen_count' = id
                                  /\ state_index' = START_CONV
                     ELSE /\ last_fail' = "store"
                          /\ sen_count' = id
                          /\ state_index' = OnStoreFail
          ELSE /\ last_fail' = "crc"
               /\ sen_count' = id
               /\ state_index' = OnTempReadFail
               /\ UNCHANGED <<db_vars, log_vars>>

case_READ_TEMP ==
    /\ pc = "loop"
    /\ state_index = READ_TEMP
    /\ sen_count + 1 \in DOMAIN ds18b20_addr
    /\ \E frame \in BusFrames(ds18b20_addr[sen_count + 1]) :
        ReadTempBody(frame, ds18b20_addr[sen_count + 1])
    /\ UNCHANGED <<start_vars, hum_vars, dust_vars, cycle>>

\* case READ_DUST_CONCENTRATION, lines 331..332 and the loop initialiser
dust_enter ==
    /\ pc = "loop"
    /\ state_index = READ_DUST_CONCENTRATION
    /\ dust_pc = "enter"
    /\ dust_data_coll_err' = 0
    /\ acc_dust_concentration' = AccAtEntry(acc_dust_concentration)
    /\ dust_sensor_sample_count' = 0
    /\ pin_err' = FALSE
    /\ dust_batch' = [n |-> 0, sum |-> 0]
    /\ dust_pc' = "loop"
    /\ UNCHANGED <<start_vars, state_index, temp_vars, sen_count, hum_vars,
                   dust_concentration, dust_adc_val, gp2y_ops, db_vars,
                   log_vars, last_fail, cycle>>

\* one pass of the sample loop (lines 336..353)
DustSampleBody(s) ==
    /\ dust_concentration' = s.ret
    /\ dust_adc_val' = s.dust_adc_val
    /\ gp2y_ops' = s.ops
    /\ IF s.ret >= 0
       THEN /\ acc_dust_concentration' = acc_dust_concentration + s.ret
            /\ UNCHANGED dust_data_coll_err
       ELSE /\ dust_data_coll_err' = 1
            /\ UNCHANGED acc_dust_concentration
    /\ dust_sensor_sample_count' = U8(dust_sensor_sample_count + 1)
    /\ dust_batch' = [n |-> dust_batch.n + 1, sum |-> dust_batch.sum + s.ret]

dust_sample ==
    /\ pc = "loop"
    /\ state_index = READ_DUST_CONCENTRATION
    /\ dust_pc = "loop"
    /\ dust_sensor_sample_count < dust_sensor_max_sample
    /\ \E on_ok \in BOOLEAN, off_ok \in BOOLEAN, adc \in AdcSamples :
        /\ DustSampleBody(gp2y_read_dust_output_voltage_float(
                              on_ok, adc, off_ok, dust_adc_val))
        /\ pin_err' = (pin_err \/ ~on_ok \/ ~off_ok)
    /\ UNCHANGED <<start_vars, state_index, temp_vars, sen_count, hum_vars,
                   dust_pc, db_vars, log_vars, last_fail, cycle>>

\* after the sample loop (lines 355..399)
DustFinishBody(path) ==
    IF dust_data_coll_err # 0
    THEN /\ state_index' = OnBatchFail
         /\ last_fail' = "batch"
         /\ UNCHANGED <<acc_dust_concentration, db_vars, log_vars>>
    ELSE LET mean == acc_dust_concentration \div dust_sensor_max_sample
             dens == DustDensity(mean)
             st   == store_data_to_db(path)
         IN /\ acc_dust_concentration' = dens
            /\ cycle_ids' = Append(cycle_ids, DustSensorId)
            /\ last_store' = [kind |-> "dust", id |-> DustSensorId,
                              val |-> dens, addr |-> 0, raw |-> mean,
                              ok |-> (st.ret = SUCCESS),
                              seq |-> 1 - last_store.seq]
            /\ DbEffect(st)
            /\ IF st.ret = SUCCESS
               THEN /\ state_index' = READ_HUMIDITY
                    /\ last_fail' = IF pin_err THEN "pin" ELSE "none"
               ELSE /\ state_index' = OnStoreFail
                    /\ last_fail' = "store"

dust_finish ==
    /\ pc = "loop"
    /\ state_index = READ_DUST_CONCENTRATION
    /\ dust_pc = "loop"
    /\ ~(dust_sensor_sample_count < dust_sensor_max_sample)
    /\ \E path \in StorePaths : DustFinishBody(path)
    /\ dust_pc' = "enter"
    /\ UNCHANGED <<start_vars, temp_vars, sen_count, hum_vars,
                   dust_concentration, dust_sensor_sample_count,
                   dust_data_coll_err, dust_adc_val, gp2y_ops, pin_err,
                   dust_batch, cycle>>

case_READ_HUMIDITY ==
    /\ pc = "loop"
    /\ state_index = READ_HUMIDITY
    /\ \E adc \in AdcSamples, path \in StorePaths :
        LET h  == hsm_read_humidity_float(adc)
            st == store_data_to_db(path)
        IN /\ hum_adc_val' = adc
           /\ humidity' = h
           /\ cycle_ids' = Append(cycle_ids, HumSensorId)
           /\ last_store' = [kind |-> "hum", id |-> HumSensorId,
                             val |-> h, addr |-> 0, raw |-> 0,
                             ok |-> (st.ret = SUCCESS),
                             seq |-> 1 - last_store.seq]
           /\ DbEffect(st)
           /\ IF st.ret = SUCCESS
              THEN /\ state_index' = WAIT
                   /\ last_fail' = "none"
              ELSE /\ state_index' = OnStoreFail
                   /\ last_fail' = "store"
    /\ UNCHANGED <<start_vars, temp_vars, sen_count, dust_vars, cycle>>

\* sleep(60); the next cycle starts
case_WAIT ==
    /\ pc = "loop"
    /\ state_index = WAIT
    /\ state_index' = AfterSleep
    /\ last_fail' = "none"
    /\ cycle_ids' = <<>>
    /\ bus_log' = <<>>
    /\ cycle' = Min(cycle + 1, MaxCycle)
    /\ UNCHANGED <<start_vars, temp, scratchpad, sen_count, hum_vars,
                   dust_vars, db_vars, last_store>>

\* the default case: the four handles are released, then while(1)
case_default ==
    /\ pc = "loop"
    /\ state_index \notin NONE..WAIT
    /\ hstate' = mraa_close(hstate, FaultRelease)
    /\ hcloses' = CountClose(hcloses, FaultRelease)
    /\ pc' = "spin"
    /\ UNCHANGED <<exit_status, bus_vars, startup_failed, state_index,
                   temp_vars, sen_count, hum_vars, dust_vars, db_vars,
                   log_vars, last_fail, cycle>>

Loop ==
    \/ case_NONE
    \/ case_START_CONV
    \/ case_WAIT_TILL_CONV_FINISHED
    \/ case_READ_TEMP
    \/ dust_enter
    \/ dust_sample
    \/ dust_finish
    \/ case_READ_HUMIDITY
    \/ case_WAIT
    \/ case_default

Next == Startup \/ Loop

Spec == Init /\ [][Next]_vars

\* the loop runs on as long as a case is enabled (single thread, no
\* scheduler that could starve it)
FairSpec == Spec /\ WF_vars(Next)

TypeOK ==
    /\ pc \in {"uart_init", "reset", "search_first", "search_next",
               "gpio_init", "gpio_dir", "dust_aio_init", "hsm_aio_init",
               "loop", "exit", "spin"}
    /\ state_index \in NONE..FAULT
    /\ sen_count \in 0..NUM_OF_SENSORS
    /\ dust_sensor_sample_count \in 0..dust_sensor_max_sample

\* ------------------------------------------------------------------------
\* ds18b20_read_temp_float on its own: every byte pair (lsb, msb), framed
\* with a valid CRC or with one inverted bit, is handed to the function once
\* ------------------------------------------------------------------------
UINT8_MAX == 255

DecodeFlips == {<<0, 0>>, <<9, 0>>}

DecodeInit ==
    /\ pc = "decode"
    /\ num_present = 1
    /\ \E lsb \in 0..UINT8_MAX, msb \in 0..UINT8_MAX, flip \in DecodeFlips :
        scratchpad = FlipBit(GoodFrame(msb * 256 + lsb), flip)
    /\ StaticInit

decode_call ==
    /\ pc = "decode"
    /\ LET rd == ds18b20_read_temp_float(scratchpad, temp)
       IN /\ temp' = rd.temp
          /\ last_fail' = IF rd.ret = SUCCESS THEN "none" ELSE "crc"
    /\ pc' = "decoded"
    /\ UNCHANGED <<exit_status, hw_vars, bus_vars, state_index, scratchpad,
                   bus_log, sen_count, hum_vars, dust_vars, db_vars, log_vars,
                   startup_failed, cycle>>

DecodeNext == decode_call

DecodeSpec == DecodeInit /\ [][DecodeNext]_vars

\* ------------------------------------------------------------------------
\* The end of case READ_DUST_CONCENTRATION on its own (lines 355..399): the
\* sample loop has made its 16 passes and left a sum in the accumulator.
\* The sums are those of 16 ADC counts and, for the breakpoints of the
\* curve, 16 times every tenth of a volt from 0.0 to 10.0.
\* ------------------------------------------------------------------------
MaxTenthVolt == 100

DustSums ==
    {VoltOfAdc(c) : c \in 0..(dust_sensor_max_sample * ADC_FULL_SCALE)}
    \cup {dust_sensor_max_sample * k * (FloatDen \div 10) : k \in 0..MaxTenthVolt}

CurveInit ==
    /\ pc = "loop"
    /\ exit_status = -1
    /\ hstate = [h \in Handles |-> "open"]
    /\ hcloses = [h \in Handles |-> 0]
    /\ mraa_ret_val = "SUCCESS"
    /\ num_present = NUM_OF_SENSORS
    /\ search_pos = NUM_OF_SENSORS
    /\ state_index = READ_DUST_CONCENTRATION
    /\ ds18b20_addr = [i \in 1..NUM_OF_SENSORS |-> i]
    /\ temp = 0
    /\ sen_count = 0
    /\ humidity = <<0, 0>>
    /\ hum_adc_val = 0
    /\ dust_concentration = 0
    /\ acc_dust_concentration \in DustSums
    /\ dust_sensor_sample_count = dust_sensor_max_sample
    /\ dust_data_coll_err = 0
    /\ dust_adc_val = 0
    /\ dust_pc = "loop"
    /\ db_open = 0
    /\ db_bufs = 0
    /\ scratchpad = GoodFrame(0)
    /\ bus_log = <<>>
    /\ gp2y_ops = <<>>
    /\ pin_err = FALSE
    /\ dust_batch = [n |-> dust_sensor_max_sample, sum |-> acc_dust_concentration]
    /\ cycle_ids = <<1, 2>>
    /\ last_store = NoStore
    /\ last_fail = "none"
    /\ startup_failed = FALSE
    /\ cycle = 0

CurveNext == dust_finish

CurveSpec == CurveInit /\ [][CurveNext]_vars

\* ------------------------------------------------------------------------
\* hsm_read_humidity_float on its own, in its two assignments: line 565
\* leaves the voltage n/d in the static humidity, lines 566..567 replace it
\* by the polynomial.  The result <<m, r>> stands for (m + r/d^2)
\* thousandths.  The call is made on every ADC count, with the statics as
\* an earlier call left them, and the polynomial on every tenth of a volt.
\* ------------------------------------------------------------------------
\* the coefficients 1.253, 25.931 and 7.542 in thousandths
\* (variant: the linear coefficient stands in for the constant term)
HSM_QUAD == 1253
HSM_LIN == 25931
HSM_CONST_as_linear == HSM_LIN
HSM_CONST == 7542

HumidityPoly(n, d) ==
    LET u  == HSM_QUAD * n + HSM_LIN * d
        uq == u \div (d * d)
        ur == u % (d * d)
        a  == ur \div d
        b  == ur % d
        c  == (n * b) \div d
        e  == (n * b) % d
        t  == n * a + c
    IN <<n * uq + (t \div d) - HSM_CONST, (t % d) * d + e>>

MaxHsmTenthVolt == 50
PrevHsmAdc == {0, ADC_FULL_SCALE}

HumInit ==
    /\ \/ /\ pc = "hsm_read"
          /\ hum_adc_val \in PrevHsmAdc
          /\ humidity = IF hum_adc_val = 0 THEN <<0, 0>>
                        ELSE hsm_read_humidity_float(hum_adc_val)
       \/ /\ pc = "hsm_poly"
          /\ hum_adc_val = 0
          /\ \E k \in 0..MaxHsmTenthVolt : humidity = <<k, 10>>
    /\ exit_status = -1
    /\ hstate = [h \in Handles |-> "open"]
    /\ hcloses = [h \in Handles |-> 0]
    /\ mraa_ret_val = "SUCCESS"
    /\ num_present = NUM_OF_SENSORS
    /\ search_pos = NUM_OF_SENSORS
    /\ state_index = READ_HUMIDITY
    /\ ds18b20_addr = [i \in 1..NUM_OF_SENSORS |-> i]
    /\ temp = 0
    /\ sen_count = 0
    /\ dust_concentration = 0
    /\ acc_dust_concentration = 0
    /\ dust_sensor_sample_count = dust_sensor_max_sample
    /\ dust_data_coll_err = 0
    /\ dust_adc_val = 0
    /\ dust_pc = "enter"
    /\ db_open = 0
    /\ db_bufs = 0
    /\ scratchpad = GoodFrame(0)
    /\ bus_log = <<>>
    /\ gp2y_ops = <<>>
    /\ pin_err = FALSE
    /\ dust_batch = [n |-> dust_sensor_max_sample, sum |-> 0]
    /\ cycle_ids = <<1, 2, 3>>
    /\ last_store = NoStore
    /\ last_fail = "none"
    /\ startup_failed = FALSE
    /\ cycle = 0

hsm_frame == <<exit_status, hw_vars, bus_vars, state_index, temp_vars,
               sen_count, dust_vars, db_vars, log_vars, last_fail,
               startup_failed, cycle>>

\* hum_adc_val = mraa_aio_read(..); humidity = hum_adc_val / 1023.0 * 5.0
hsm_read ==
    /\ pc = "hsm_read"
    /\ \E adc \in 0..ADC_FULL_SCALE :
        /\ hum_adc_val' = adc
        /\ humidity' = <<adc * 5, ADC_FULL_SCALE>>
    /\ pc' = "hsm_poly"
    /\ UNCHANGED hsm_frame

\* humidity = 1.253 * humidity * humidity + 25.931 * humidity - 7.542
hsm_poly ==
    /\ pc = "hsm_poly"
    /\ humidity' = HumidityPoly(humidity[1], humidity[2])
    /\ pc' = "hsm_return"
    /\ UNCHANGED <<hum_adc_val, hsm_frame>>

HumNext == hsm_read \/ hsm_poly

HumSpec == HumInit /\ [][HumNext]_vars

\* ------------------------------------------------------------------------
\* Properties
\* ------------------------------------------------------------------------
IsPrefix(s, t) == Len(s) <= Len(t) /\ \A i \in 1..Len(s) : s[i] = t[i]

Running == pc \in {"loop", "spin"}

\* a 16-bit field read as a signed two's-complement integer
Signed16(u) == IF u >= 32768 THEN u - 65536 ELSE u

\* C1: within a cycle the store calls carry the ids 1, 2, 3, 4 in this
\* order (the ids logged so far are always a prefix of it), a cycle that
\* reaches Sleep has made exactly these four calls, in every cycle
C1_CycleOrder ==
    Running =>
        /\ IsPrefix(cycle_ids, <<1, 2, 3, 4>>)
        /\ state_index = WAIT => cycle_ids = <<1, 2, 3, 4>>

C1_Witness ==
    /\ pc = "loop"
    /\ state_index = WAIT
    /\ cycle >= 1
    /\ cycle_ids = <<1, 2, 3, 4>>

\* C2: a dust batch in which a GPIO write failed is marked failed
\* (dust_data_coll_err set) and no record with id NUM_OF_SENSORS+1 is
\* stored in that cycle
C2_BatchFailureIsolation ==
    pin_err =>
        /\ dust_data_coll_err = 1
        /\ \A i \in 1..Len(cycle_ids) : cycle_ids[i] # NUM_OF_SENSORS + 1

\* C3: a read whose frame fails the CRC leaves temp as it was, makes no
\* store call and takes the controller to Fault
C3_CrcMismatch ==
    [][(pc = "loop" /\ state_index = READ_TEMP /\ ~CrcOk(scratchpad'))
        => /\ temp' = temp
           /\ cycle_ids' = cycle_ids
           /\ db_open' = db_open
           /\ last_store'.seq = last_store.seq
           /\ state_index' = FAULT]_vars

C3_Witness ==
    /\ last_fail = "crc"
    /\ sen_count = 2
    /\ temp # 0
    /\ scratchpad # IdleFrame
    /\ ~CrcOk(scratchpad)
    /\ cycle_ids = <<1>>

\* C4: a frame with a valid CRC decodes to the 16-bit field msb*256+lsb
\* read as a signed two's-complement integer, in units of 1/16 degree;
\* 0x0190 gives 400 (25.0), 0xFC90 gives -880 (-55.0)
C4_Decode ==
    (pc = "decoded" /\ CrcOk(scratchpad)) =>
        /\ temp = Signed16(scratchpad[2] * 256 + scratchpad[1]) * TempScale
        /\ (scratchpad[1] = 144 /\ scratchpad[2] = 1) => temp = 250000
        /\ (scratchpad[1] = 144 /\ scratchpad[2] = 252) => temp = -550000

C4_Witness ==
    /\ pc = "decoded"
    /\ CrcOk(scratchpad)
    /\ scratchpad[1] = 0
    /\ scratchpad[2] = 128
    /\ temp = (0 - 32768) * TempScale

\* C5: whatever failed in the case just completed (a read, a dust batch
\* with a failed GPIO write, a store), the next state is Fault
C5_FailureToFault ==
    (Running /\ last_fail # "none") => state_index = FAULT

\* C6 as claimed: after a CRC mismatch the controller still reaches Sleep
C6_DecodeErrorIsLocal ==
    (Running /\ last_fail = "crc") ~> (state_index = WAIT)

\* C6 as the code has it: a CRC mismatch on a probe ends the acquisition
\* for good; the controller is in Fault from the failed read on, no later
\* case completes, no store call follows, and Sleep and the next cycle are
\* never reached
C6_CrcAborts ==
    [][/\ last_fail' = "crc" => state_index' = FAULT
       /\ last_fail = "crc" => /\ last_fail' = "crc"
                               /\ cycle_ids' = cycle_ids
                               /\ cycle' = cycle
                               /\ scratchpad' = scratchpad]_vars

C6_Witness ==
    /\ pc = "spin"
    /\ last_fail = "crc"
    /\ state_index = FAULT
    /\ scratchpad # IdleFrame

\* C7 as claimed: after a failed store another store call follows
C7_StoreFailureDoesNotBlock ==
    /\ (Running /\ last_fail = "store" /\ last_store.seq = 0)
            ~> (last_store.seq = 1)
    /\ (Running /\ last_fail = "store" /\ last_store.seq = 1)
            ~> (last_store.seq = 0)

\* C7 as the code has it: a failed store call takes the controller to
\* Fault, and store_data_to_db is never called again
C7_StoreFailureHalts ==
    [][/\ last_fail' = "store" => (state_index' = FAULT /\ ~last_store'.ok)
       /\ last_fail = "store" => /\ last_fail' = "store"
                                 /\ last_store' = last_store
                                 /\ cycle_ids' = cycle_ids]_vars

C7_Witness ==
    /\ pc = "spin"
    /\ last_fail = "store"
    /\ last_store.id = 1
    /\ ~last_store.ok

\* C8 as claimed: in Fault the four handles are all still open
C8_FaultKeepsHandlesOpen ==
    (Running /\ state_index = FAULT) =>
        \A h \in Handles : hstate[h] = "open"

\* C8 as the code has it: the default case closes each of the four handles
\* exactly once and then spins; they are open until it runs and closed in
\* every state after it
C8_FaultReleasesHandles ==
    /\ pc = "spin" =>
        \A h \in Handles : hstate[h] = "closed" /\ hcloses[h] = 1
    /\ pc = "loop" =>
        \A h \in Handles : hstate[h] = "open" /\ hcloses[h] = 0

C8_Witness ==
    /\ pc = "spin"
    /\ state_index = FAULT
    /\ \A h \in Handles : hstate[h] = "closed"

\* C9: a failed startup step ends the process with a non-zero status before
\* the loop is entered, with every acquired handle released exactly once
C9_StartupFailureTerminates ==
    /\ startup_failed => ~Running
    /\ pc = "exit" =>
        /\ exit_status # 0
        /\ \A h \in Handles :
            /\ hstate[h] # "open"
            /\ hcloses[h] = IF hstate[h] = "closed" THEN 1 ELSE 0

\* C10: a temperature record with id k was read from ds18b20_addr slot k-1
\* and carries the value of that frame; the dust record has id N+1, the
\* humidity record id N+2, and no store call uses another id
C10_IdMapping ==
    /\ \A i \in 1..Len(cycle_ids) : cycle_ids[i] \in 1..(NUM_OF_SENSORS + 2)
    /\ last_store.kind # "none" =>
        /\ last_store.id \in 1..(NUM_OF_SENSORS + 2)
        /\ last_store.kind = "temp" <=> last_store.id \in 1..NUM_OF_SENSORS
        /\ last_store.kind = "dust" <=> last_store.id = NUM_OF_SENSORS + 1
        /\ last_store.kind = "hum" <=> last_store.id = NUM_OF_SENSORS + 2
        /\ last_store.kind = "temp" =>
            /\ last_store.addr = ds18b20_addr[last_store.id]
            /\ last_store.addr \in 1..num_present
            /\ last_store.val = Signed16(last_store.raw) * TempScale

C10_Witness ==
    /\ last_store.kind = "temp"
    /\ last_store.id = 2
    /\ last_store.addr = ds18b20_addr[2]
    /\ last_store.val = -550000
    /\ last_store.ok

\* C11: every read-scratchpad command for probe index i comes directly after
\* the 1 s conversion wait made under index i, which comes directly after
\* the start-conversion command to the same probe i (same address); nothing
\* else is on the bus in between, and no read comes first in a cycle
C11_ReadFollowsConversion ==
    \A k \in 1..Len(bus_log) :
        bus_log[k].cmd = CMD_READ_SCRATCHPAD =>
            /\ k >= 3
            /\ bus_log[k - 1].op = "sleep"
            /\ bus_log[k - 1].secs >= 1
            /\ bus_log[k - 1].slot = bus_log[k].slot
            /\ bus_log[k - 2].cmd = CMD_START_TEMP_CONV
            /\ bus_log[k - 2].slot = bus_log[k].slot
            /\ bus_log[k - 2].addr = bus_log[k].addr

C11_Witness ==
    /\ cycle >= 1
    /\ Len(bus_log) = 3 * NUM_OF_SENSORS
    /\ bus_log[Len(bus_log)].cmd = CMD_READ_SCRATCHPAD
    /\ bus_log[Len(bus_log)].slot = NUM_OF_SENSORS - 1
    /\ bus_log[Len(bus_log)].addr = NUM_OF_SENSORS

\* C12: the density handed to the store call with id N+1 is the
\* three-branch function of the mean voltage v of the batch: 0.0 for
\* v <= 0.6, exactly (v - 0.6)/5.8 for 0.6 < v <= 3.5, 0.6 for v > 3.5;
\* v = 0.6 gives 0.0, v = 3.5 gives 0.5, and the density is in [0.0, 0.6]
C12_DustCurve ==
    last_store.kind = "dust" =>
        LET v == last_store.raw
            d == last_store.val
        IN /\ last_store.id = NUM_OF_SENSORS + 1
           /\ 10 * v <= 6 * FloatDen => d = 0
           /\ (10 * v > 6 * FloatDen /\ 10 * v <= 35 * FloatDen) =>
                  58 * d = 10 * v - 6 * FloatDen
           /\ 10 * v > 35 * FloatDen => 10 * d = 6 * FloatDen
           /\ 10 * v = 6 * FloatDen => d = 0
           /\ 10 * v = 35 * FloatDen => 2 * d = FloatDen
           /\ d >= 0
           /\ 10 * d <= 6 * FloatDen

C12_Witness ==
    /\ last_store.kind = "dust"
    /\ last_store.ok
    /\ 10 * last_store.raw = 35 * FloatDen
    /\ 2 * last_store.val = FloatDen
    /\ state_index = READ_HUMIDITY

\* 1.253*v*v + 25.931*v - 7.542 for v = 5*r/1023, in thousandths, as
\* <<m, rem>> with rem counted in 1/1023^2:
\*   r * (31325*r + 129655*1023) / 1023^2 - 7542
HumidityOfCount(r) ==
    LET sq == 1023 * 1023
        u  == 31325 * r + 132637065
    IN <<r * (u \div sq) + ((r * (u % sq)) \div sq) - 7542,
         (r * (u % sq)) % sq>>

\* C13: for every ADC count r in 0..1023 the call returns
\* 1.253*v*v + 25.931*v - 7.542 with v = r/1023*5, whatever an earlier call
\* left in the statics, and the polynomial maps 2.0 V to 49.332
C13_HumidityFormula ==
    [][/\ pc = "hsm_read" =>
            /\ hum_adc_val' \in 0..1023
            /\ humidity' = <<5 * hum_adc_val', 1023>>
       /\ (pc = "hsm_poly" /\ humidity[2] = 1023) =>
            /\ humidity[1] = 5 * hum_adc_val
            /\ humidity' = HumidityOfCount(hum_adc_val)
            /\ humidity' = hsm_read_humidity_float(hum_adc_val)
       /\ (pc = "hsm_poly" /\ humidity = <<20, 10>>) =>
            humidity' = <<49332, 0>>]_vars

C13_Witness ==
    /\ pc = "hsm_return"
    /\ hum_adc_val = 1023
    /\ humidity = <<153438, 0>>

\* C14: a bus reset that does not succeed and a ROM search (the first or a
\* later one) that returns no-devices or data-error abort the startup at
\* that step, and a run whose startup was aborted never issues a bus
\* command and never makes a store call
C14_EnumerationGuardsLoop ==
    [][/\ (pc = "reset" /\ mraa_ret_val' # "SUCCESS") => pc' = "exit"
       /\ (pc \in {"search_first", "search_next"}
              /\ mraa_ret_val' \in {"NO_DEVICES", "DATA_ERROR"})
            => pc' = "exit"
       /\ pc' = "exit" => (bus_log' = <<>> /\ last_store' = NoStore)]_vars

\* C15: ds18b20_addr is written by the ROM searches of the startup only,
\* no step of the loop (the default case included) changes it, and while
\* the loop runs slot k holds the k-th address of the enumeration (the
\* k-th device in search order has address k)
C15_AddressTableFixed ==
    [][/\ pc \notin {"search_first", "search_next"}
            => ds18b20_addr' = ds18b20_addr
       /\ pc' \in {"loop", "spin"}
            => \A k \in 1..NUM_OF_SENSORS : ds18b20_addr'[k] = k]_vars

\* C16: state_index changes only along NONE -> START_CONV ->
\* WAIT_TILL_CONV_FINISHED -> READ_TEMP, READ_TEMP -> {START_CONV,
\* READ_DUST_CONCENTRATION, Fault}, READ_DUST_CONCENTRATION ->
\* {READ_HUMIDITY, Fault}, READ_HUMIDITY -> {WAIT, Fault}, WAIT ->
\* START_CONV; NONE is left by the first step of the loop and never entered
\* again; READ_TEMP selects READ_DUST_CONCENTRATION exactly when the record
\* just stored has id NUM_OF_SENSORS (the index is then 0) and START_CONV
\* exactly when it has a smaller id
C16_Edges ==
    [][/\ state_index' # state_index =>
            \/ state_index = NONE /\ state_index' = START_CONV
            \/ state_index = START_CONV
                    /\ state_index' = WAIT_TILL_CONV_FINISHED
            \/ state_index = WAIT_TILL_CONV_FINISHED /\ state_index' = READ_TEMP
            \/ state_index = READ_TEMP
                    /\ state_index' \in {START_CONV, READ_DUST_CONCENTRATION,
                                         WAIT + 1}
            \/ state_index = READ_DUST_CONCENTRATION
                    /\ state_index' \in {READ_HUMIDITY, WAIT + 1}
            \/ state_index = READ_HUMIDITY /\ state_index' \in {WAIT, WAIT + 1}
            \/ state_index = WAIT /\ state_index' = START_CONV
       /\ (pc = "loop" /\ state_index = NONE) => state_index' = START_CONV
       /\ state_index' = NONE => (state_index = NONE /\ pc # "loop")
       /\ state_index = READ_TEMP =>
            /\ state_index' = READ_DUST_CONCENTRATION
                  <=> /\ last_store'.seq # last_store.seq
                      /\ last_store'.ok
                      /\ last_store'.id = NUM_OF_SENSORS
            /\ state_index' = READ_DUST_CONCENTRATION => sen_count' = 0
            /\ state_index' = START_CONV
                  <=> /\ last_store'.seq # last_store.seq
                      /\ last_store'.ok
                      /\ last_store'.id < NUM_OF_SENSORS
            /\ state_index' = START_CONV
                  => sen_count' = last_store'.id]_vars

C16_Witness ==
    /\ pc = "loop"
    /\ cycle >= 1
    /\ state_index = READ_DUST_CONCENTRATION
    /\ last_store.kind = "temp"
    /\ last_store.id = NUM_OF_SENSORS
    /\ last_store.ok
    /\ sen_count = 0

\* C17: in a run that enters the loop and in which no read and no store
\* ever fails, Fault is never reached, every Sleep is followed by
\* START_CONV with probe index 0 and an empty cycle, Sleep is reached again
\* and again, and each of the ids 1..N+2 is stored again and again
C17_CycleRepeats ==
    (<>(pc = "loop") /\ [](last_fail = "none")) =>
        /\ [](state_index # FAULT)
        /\ []<>(pc = "loop" /\ state_index = WAIT)
        /\ [](state_index = WAIT =>
                <>(state_index = START_CONV /\ sen_count = 0
                     /\ cycle_ids = <<>>))
        /\ \A k \in 1..(NUM_OF_SENSORS + 2) :
                []<>(last_store.id = k /\ last_store.ok)

C17_Witness ==
    /\ pc = "loop"
    /\ cycle >= 1
    /\ state_index = START_CONV
    /\ sen_count = 0
    /\ cycle_ids = <<>>
    /\ last_store.id = NUM_OF_SENSORS + 2
    /\ last_store.ok

\* C18: the operations of one gp2y_read_dust_output_voltage_float call are
\* an initial part of: LED-on write, 280 us hold, one analog read, 40 us
\* hold, LED-off write, 9680 us hold.  After a failed LED-on write the call
\* has made no other operation; after a successful one it has made all up
\* to the LED-off write, and all six when that write succeeded too
C18_PulseOrder ==
    gp2y_ops # <<>> =>
        LET n == Len(gp2y_ops)
            order == <<"mraa_gpio_write", "usleep", "mraa_aio_read", "usleep",
                       "mraa_gpio_write", "usleep">>
            args == <<1, 280, 0, 40, 0, 9680>>
        IN /\ n <= 6
           /\ \A i \in 1..n :
                /\ gp2y_ops[i].op = order[i]
                /\ i # 3 => gp2y_ops[i].arg = args[i]
           /\ ~gp2y_ops[1].ok => n = 1
           /\ gp2y_ops[1].ok => n >= 5
           /\ (n >= 5 /\ gp2y_ops[5].ok) => n = 6

C18_Witness ==
    /\ pc = "loop"
    /\ dust_batch.n >= 2
    /\ Len(gp2y_ops) = 1
    /\ gp2y_ops[1] = [op |-> "mraa_gpio_write", arg |-> 1, ok |-> FALSE]

\* C19: once state_index is WAIT + 1 it keeps that value, and no step adds
\* a bus command, makes a dust sample call (pin writes, analog read), reads
\* the humidity input or calls store_data_to_db
C19_FaultAbsorbing ==
    [][state_index = FAULT =>
            /\ state_index' = FAULT
            /\ bus_log' = bus_log
            /\ gp2y_ops' = gp2y_ops
            /\ dust_batch' = dust_batch
            /\ hum_adc_val' = hum_adc_val
            /\ last_store' = last_store
            /\ cycle_ids' = cycle_ids
            /\ db_open' = db_open
            /\ db_bufs' = db_bufs]_vars

C19_Witness ==
    /\ pc = "spin"
    /\ state_index = FAULT
    /\ last_store.kind = "dust"
    /\ ~last_store.ok
    /\ Len(bus_log) = 3 * NUM_OF_SENSORS
    /\ dust_batch.n = dust_sensor_max_sample

\* C20: the step that enters the dust batch clears the accumulator, the
\* error flag and the sample counter; the batch ends only after 16 sample
\* calls, whatever they returned; during the batch the accumulator is the
\* sum of what the calls of this batch returned, and the mean the stored
\* density is computed from is that sum of 16 divided by 16
C20_BatchOfSixteen ==
    [][/\ (state_index = READ_DUST_CONCENTRATION /\ dust_pc = "enter"
              /\ dust_pc' = "loop")
            => /\ acc_dust_concentration' = 0
               /\ dust_data_coll_err' = 0
               /\ dust_sensor_sample_count' = 0
       /\ (pc' = "loop" /\ dust_pc' = "loop")
            => /\ acc_dust_concentration' = dust_batch'.sum
               /\ dust_sensor_sample_count' = dust_batch'.n
       /\ (dust_pc = "loop" /\ dust_pc' = "enter")
            => /\ dust_batch.n = 16
               /\ dust_batch' = dust_batch
       /\ (last_store'.kind = "dust" /\ last_store'.seq # last_store.seq)
            => /\ dust_batch.n = 16
               /\ 16 * last_store'.raw = dust_batch.sum]_vars

C20_Witness ==
    /\ pc = "loop"
    /\ cycle >= 1
    /\ state_index = READ_HUMIDITY
    /\ last_store.kind = "dust"
    /\ last_store.ok
    /\ dust_batch.n = 16
    /\ dust_batch.sum = (dust_sensor_max_sample - 1) * VoltOfAdc(ADC_FULL_SCALE)
    /\ 16 * last_store.raw = dust_batch.sum

\* C21: sen_count is a slot of ds18b20_addr wherever it indexes the table:
\* the first search writes slot 0, the later searches slots
\* 1..NUM_OF_SENSORS-1; in the loop it is in 0..NUM_OF_SENSORS-1 in
\* START_CONV, during the conversion wait and in READ_TEMP, and it is 0 in
\* READ_DUST_CONCENTRATION, READ_HUMIDITY and WAIT
C21_IndexInRange ==
    /\ pc = "search_first" => sen_count = 0
    /\ pc = "search_next" => sen_count \in 1..(NUM_OF_SENSORS - 1)
    /\ (pc = "loop" /\ state_index \in {START_CONV, WAIT_TILL_CONV_FINISHED,
                                        READ_TEMP})
            => (0 <= sen_count /\ sen_count < NUM_OF_SENSORS)
    /\ (pc = "loop" /\ state_index \in {READ_DUST_CONCENTRATION,
                                        READ_HUMIDITY, WAIT})
            => sen_count = 0

C21_Witness ==
    /\ pc = "loop"
    /\ cycle >= 1
    /\ state_index = READ_TEMP
    /\ sen_count = NUM_OF_SENSORS - 1
    /\ Len(bus_log) = 3 * NUM_OF_SENSORS - 1

\* C22: every store_data_to_db call returns with the database handle it
\* opened closed exactly once and the query buffer it allocated freed, so
\* between two readings no handle and no buffer is outstanding
C22_StoreHoldsNothing ==
    /\ db_open = 0
    /\ db_bufs = 0

====
